---- MODULE Spec2Model ----
(***************************************************************************)
(* Model of hnn.py: the three Hamiltonian-network classes HNN,             *)
(* HNN_structure and HNN_structure_pend.                                   *)
(*                                                                         *)
(* One object is constructed (Init) and then its methods are called in any *)
(* order.  Tensors are modelled one batch row at a time: a vector is a     *)
(* sequence (python index i is position i+1), a matrix a sequence of rows. *)
(* The sub-networks are external; each is drawn from a small family of     *)
(* functions whose value and derivative are known in closed form, which is *)
(* what torch.autograd.grad returns for them.  Arithmetic is exact: a      *)
(* quotient is kept as numerator and denominator.                          *)
(***************************************************************************)
EXTENDS Integers, FiniteSets, Sequences, TLC

VARIABLES
    cls,                      \* which class the object is
    input_dim,                \* n, the constructor argument
    assume_canonical_coords,
    baseline,                 \* HNN only
    damp,                     \* HNN only
    dampNet,                  \* HNN only; "unset" when damp is False
    differentiale_model,      \* HNN only
    L_net, V_net, M_net, A_net,
    M,                        \* self.M
    nfe,                      \* self.nfe
    tdCalls,                  \* history: time_derivative calls begun so far
    last                      \* history: the last call and what it produced

vars == <<cls, input_dim, assume_canonical_coords, baseline, damp, dampNet,
          differentiale_model, L_net, V_net, M_net, A_net, M, nfe, tdCalls, last>>

config == <<cls, input_dim, assume_canonical_coords, baseline, damp, dampNet,
            differentiale_model, L_net, V_net, M_net, A_net, M>>

-----------------------------------------------------------------------------
(* Bounds of the model *)

MaxN == 4          \* input_dim of an HNN ranges over 1..MaxN
MaxCalls == 2      \* at most this many time_derivative calls are explored

Times == {0, 1}               \* values of the time argument t

Coef == {-1, 0, 1}            \* weights of the sub-network families
Coord == {-1, 0, 1, 2}        \* values a coordinate of x may take (HNN_structure)

Scale == 10        \* the constant 0.1 of the source is 1/Scale

-----------------------------------------------------------------------------
(* Vectors and matrices *)

RECURSIVE SumSeq(_)
SumSeq(s) == IF s = <<>> THEN 0 ELSE Head(s) + SumSeq(Tail(s))

Dot(u, v) == SumSeq([i \in 1..Len(u) |-> u[i] * v[i]])

NegVec(v) == [i \in 1..Len(v) |-> -v[i]]
NegMat(A) == [r \in 1..Len(A) |-> NegVec(A[r])]
AddVec(u, v) == [i \in 1..Len(u) |-> u[i] + v[i]]
SubVec(u, v) == [i \in 1..Len(u) |-> u[i] - v[i]]
ScaleVec(k, v) == [i \in 1..Len(v) |-> k * v[i]]

NCols(A) == IF A = <<>> THEN 0 ELSE Len(A[1])
Transpose(A) == [c \in 1..NCols(A) |-> [r \in 1..Len(A) |-> A[r][c]]]

\* torch.matmul(v, A) for a row vector v and a matrix A
VecMat(v, A) == [c \in 1..NCols(A) |-> SumSeq([r \in 1..Len(A) |-> v[r] * A[r][c]])]
\* torch.matmul(A, v) for a matrix A and a column vector v
MatVec(A, v) == [r \in 1..Len(A) |-> Dot(A[r], v)]

eye(n) == [r \in 1..n |-> [c \in 1..n |-> IF r = c THEN 1 ELSE 0]]
ones(n) == [r \in 1..n |-> [c \in 1..n |-> 1]]
zeros(n) == [i \in 1..n |-> 0]

\* torch.chunk(x, 2, dim=1): chunks of ceil(n/2) columns
ChunkSize(n) == (n + 1) \div 2
chunk_q(x) == SubSeq(x, 1, ChunkSize(Len(x)))
chunk_p(x) == SubSeq(x, ChunkSize(Len(x)) + 1, Len(x))

\* a vector of quotients with one common denominator
Rat(num, den) == [num |-> num, den |-> den]

-----------------------------------------------------------------------------
(* permutation_tensor: the same code in the three classes *)

\* mutant: the sign put on the other block, cat([-M[n//2:], M[:n//2]])
CanonicalTensor_SignSwapped(n) ==
    LET I == eye(n)
        h == n \div 2
    IN  NegMat(SubSeq(I, h + 1, n)) \o SubSeq(I, 1, h)

\* M = torch.cat([M[n//2:], -M[:n//2]]) applied to M = torch.eye(n)
CanonicalTensor(n) ==
    LET I == eye(n)
        h == n \div 2
    IN  SubSeq(I, h + 1, n) \o NegMat(SubSeq(I, 1, h))

\* mutant: the diagonal is not cleared
ClearDiagonal_Skipped(n) == ones(n)

\* M = torch.ones(n,n); M *= 1 - torch.eye(n)
ClearDiagonal(n) == [r \in 1..n |-> [c \in 1..n |-> ones(n)[r][c] * (1 - eye(n)[r][c])]]
\* M[::2] *= -1  (python rows 0, 2, 4, ... are positions 1, 3, 5, ...)
NegEvenRows(A) == [r \in 1..Len(A) |-> IF (r - 1) % 2 = 0 THEN NegVec(A[r]) ELSE A[r]]
\* M[:,::2] *= -1
NegEvenCols(A) ==
    [r \in 1..Len(A) |-> [c \in 1..Len(A[r]) |-> IF (c - 1) % 2 = 0 THEN -A[r][c] ELSE A[r][c]]]
\* mutant: the loop that flips the upper triangle is left out
MakeAsymmetric_Skipped(A) == A

\* for i in range(n): for j in range(i+1, n): M[i,j] *= -1
MakeAsymmetric(A) ==
    [r \in 1..Len(A) |-> [c \in 1..Len(A[r]) |-> IF r < c THEN -A[r][c] ELSE A[r][c]]]

LeviCivitaTensor(n) == MakeAsymmetric(NegEvenCols(NegEvenRows(ClearDiagonal(n))))

permutation_tensor(canonical, n) ==
    IF canonical THEN CanonicalTensor(n) ELSE LeviCivitaTensor(n)

-----------------------------------------------------------------------------
(* The external sub-networks.  A network is a record of weights; its value  *)
(* and the gradient autograd computes through it are closed forms.          *)

\* differentiale_model with one output (a Hamiltonian):
\*     H(x) = w . x + c * (x . x)
\* with weight vectors w = a * e_i + b * e_j;
\* differentiale_model with n outputs (a baseline vector field):
\*     y(x) = w + c * x
\* with weight vectors w = a * (1, 2, ..., n).
Weights(n) ==
    { [k \in 1..n |-> (IF k = i THEN a ELSE 0) + (IF k = j THEN b ELSE 0)] :
        i \in 1..n, j \in 1..n, a \in Coef, b \in Coef }
Biases(n) == { [k \in 1..n |-> a * k] : a \in Coef }
DiffModels(n, out) ==
    [out : {out}, w : IF out = "vector" THEN Biases(n) ELSE Weights(n), c : {0, 1}]

model(net, x) ==
    IF net.out = "vector"
    THEN AddVec(net.w, ScaleVec(net.c, x))
    ELSE <<Dot(net.w, x) + net.c * Dot(x, x)>>

\* torch.autograd.grad(model(x).sum(), x)
model_grad_sum(net, x) ==
    IF net.out = "vector"
    THEN [i \in 1..Len(x) |-> net.c]
    ELSE AddVec(net.w, ScaleVec(2 * net.c, x))

\* dampNet: an n-by-n matrix for each x
\*   "sym"  : (1 + x[1]^2) on the diagonal, 1 elsewhere        (symmetric)
\*   "asym" : 1 on and above the diagonal, 0 below             (not symmetric for n > 1)
DampNets == {"sym", "asym"}
damp_matrix(net, x) ==
    LET n == Len(x) IN
    IF net = "sym"
    THEN [r \in 1..n |-> [c \in 1..n |-> IF r = c THEN 1 + x[1] * x[1] ELSE 1]]
    ELSE [r \in 1..n |-> [c \in 1..n |-> IF r <= c THEN 1 ELSE 0]]

-----------------------------------------------------------------------------
(* What a call leaves behind for the properties to read *)

NoCall == [op |-> "none", t |-> 0, x |-> <<>>, raised |-> FALSE,
           ret |-> <<>>, H |-> <<>>, dH |-> <<>>, aux |-> <<>>]

Returned(op, t, x, ret, H, dH, aux) ==
    [op |-> op, t |-> t, x |-> x, raised |-> FALSE,
     ret |-> ret, H |-> H, dH |-> dH, aux |-> aux]

Raised(op, t, x, H, dH) ==
    [op |-> op, t |-> t, x |-> x, raised |-> TRUE,
     ret |-> <<>>, H |-> H, dH |-> dH, aux |-> <<>>]

\* mutant: the counter is bumped at the end of the call, so not when it raises
time_derivative_nfe_AtEnd(cur, raises) == IF raises THEN cur ELSE cur + 1

\* self.nfe += 1 is the first statement of every time_derivative; `raises`
\* says whether the rest of the call raises
time_derivative_nfe(cur, raises) == cur + 1

-----------------------------------------------------------------------------
(* class HNN *)

HNN_forward(x) == model(differentiale_model, x)

\* H = self.forward(x); dH = torch.autograd.grad(H.sum(), x)[0]
HNN_dH(x) == model_grad_sum(differentiale_model, x)

\* torch.matmul(dH, self.M.t())
H_vector_field(dH) == VecMat(dH, Transpose(M))

\* mutant: D is transposed before the product
D_vector_field_Transposed(dH, D) == VecMat(dH, Transpose(D))

\* torch.squeeze(torch.matmul(torch.unsqueeze(dH, 1), D))
D_vector_field(dH, D) == VecMat(dH, D)

\* the else branch of HNN.time_derivative: the field of the Hamiltonian,
\* less the damping when self.damp
HNN_symplectic_branch(t, x) ==
    LET H == HNN_forward(x)
        dH == HNN_dH(x)
        HVF == H_vector_field(dH)
    IN  IF ~damp
        THEN Returned("time_derivative", t, x, Rat(HVF, 1), H, Rat(dH, 1), <<>>)
        ELSE IF dampNet = "None"
             THEN Raised("time_derivative", t, x, H, Rat(dH, 1))    \* None is not callable
             ELSE LET D == damp_matrix(dampNet, x)
                  IN  Returned("time_derivative", t, x,
                               Rat(SubVec(HVF, D_vector_field(dH, D)), 1), H, Rat(dH, 1), D)

\* mutant: the baseline test is missing
HNN_time_derivative_NoBaseline(t, x) == HNN_symplectic_branch(t, x)

\* the value of HNN.time_derivative(t, x) after self.nfe += 1
HNN_time_derivative(t, x) ==
    IF baseline
    THEN Returned("time_derivative", t, x, Rat(model(differentiale_model, x), 1),
                  <<>>, <<>>, <<>>)
    ELSE HNN_symplectic_branch(t, x)

HNN_Hamiltonian_vector(x) ==
    LET H == HNN_forward(x)
        dH == HNN_dH(x)
    IN  Returned("Hamiltonian_vector", 0, x, Rat(H_vector_field(dH), 1), H, Rat(dH, 1), <<>>)

\* the states x an HNN is called with: a ramp and an alternating vector
XsHNN(n) == { [i \in 1..n |-> i], [i \in 1..n |-> IF i % 2 = 0 THEN -1 ELSE 2] }

InitHNN ==
    /\ cls = "HNN"
    /\ input_dim \in 1..MaxN
    /\ assume_canonical_coords \in BOOLEAN
    /\ baseline \in BOOLEAN
    /\ damp \in BOOLEAN
    \* if damp: self.dampNet = dampNet
    /\ dampNet \in IF damp THEN DampNets \cup {"None"} ELSE {"unset"}
    /\ differentiale_model \in DiffModels(input_dim, IF baseline THEN "vector" ELSE "scalar")
    /\ L_net = "unset" /\ V_net = "unset" /\ M_net = "unset" /\ A_net = "unset"
    /\ M = permutation_tensor(assume_canonical_coords, input_dim)
    /\ nfe = 0
    /\ tdCalls = 0
    /\ last = NoCall

HNNForward ==
    /\ cls = "HNN"
    /\ \E x \in XsHNN(input_dim) :
          last' = Returned("forward", 0, x, Rat(HNN_forward(x), 1), <<>>, <<>>, <<>>)
    /\ UNCHANGED <<config, nfe, tdCalls>>

HNNTimeDerivative ==
    /\ cls = "HNN"
    /\ tdCalls < MaxCalls
    /\ \E t \in Times, x \in XsHNN(input_dim) :
          LET r == HNN_time_derivative(t, x) IN
          /\ nfe' = time_derivative_nfe(nfe, r.raised)
          /\ last' = r
    /\ tdCalls' = tdCalls + 1
    /\ UNCHANGED config

HNNHamiltonianVector ==
    /\ cls = "HNN"
    /\ \E x \in XsHNN(input_dim) : last' = HNN_Hamiltonian_vector(x)
    /\ UNCHANGED <<config, nfe, tdCalls>>

\* obj.permutation_tensor(k): builds and returns a matrix, self.M stays
PermutationTensor ==
    /\ \E k \in 1..MaxN :
          last' = Returned("permutation_tensor", 0, <<>>,
                           permutation_tensor(assume_canonical_coords, k), <<>>, <<>>, k)
    /\ UNCHANGED <<config, nfe, tdCalls>>

-----------------------------------------------------------------------------
(* class HNN_structure, with one degree of freedom: x = (q, p), and L_net   *)
(* and V_net map q to one number:                                           *)
(*     L_net(q) = l0 + l1 * q          V_net(q) = v1 * q + v2 * q * q       *)

LNets == [l0 : {0, 1}, l1 : Coef]
VNets == [v1 : Coef, v2 : {0, 1}]

L_value(net, q) == net.l0 + net.l1 * q
L_deriv(net, q) == net.l1
V_value(net, q) == net.v1 * q + net.v2 * q * q
V_deriv(net, q) == net.v1 + 2 * net.v2 * q

\* mutant: the offset 0.1 is left out
M_q_scaled_NoOffset(L) == Scale * L * L

\* M_q = L * L + 0.1, as a multiple of 1/Scale
M_q_scaled(L) == Scale * L * L + 1

\* p * p / M_q / 2 as a quotient
kinetic(p, Mq) == [num |-> Scale * p * p, den |-> 2 * Mq]

\* H = p * p / M_q / 2 + V_q
HNN_structure_forward(x) ==
    LET q == chunk_q(x)[1]
        p == chunk_p(x)[1]
        L == L_value(L_net, q)
        V_q == V_value(V_net, q)
        Mq == M_q_scaled(L)
        K == kinetic(p, Mq)
    IN  [num |-> <<K.num + V_q * K.den>>, den |-> K.den, L |-> L, Mq |-> Mq, K |-> K]

\* torch.autograd.grad(H.sum(), x) through forward:
\*     dH/dq = -(p*p/2) * (2*L*L') / M_q^2 + V'      dH/dp = p / M_q
HNN_structure_dH(x) ==
    LET q == chunk_q(x)[1]
        p == chunk_p(x)[1]
        L == L_value(L_net, q)
        Mq == M_q_scaled(L)
    IN  Rat(<< V_deriv(V_net, q) * Mq * Mq - Scale * Scale * p * p * L * L_deriv(L_net, q),
               Scale * p * Mq >>,
            Mq * Mq)

HNN_structure_time_derivative(t, x) ==
    LET H == HNN_structure_forward(x)
        dH == HNN_structure_dH(x)
    IN  Returned("time_derivative", t, x, Rat(H_vector_field(dH.num), dH.den), H, dH, <<>>)

XsStructure == { <<q, p>> : q \in Coord, p \in Coord }

InitStructure ==
    /\ cls = "HNN_structure"
    /\ input_dim = 2
    /\ assume_canonical_coords \in BOOLEAN
    /\ baseline = "unset" /\ damp = "unset" /\ dampNet = "unset"
    /\ differentiale_model = "unset"
    /\ L_net \in LNets
    /\ V_net \in VNets
    /\ M_net = "unset" /\ A_net = "unset"
    /\ M = permutation_tensor(assume_canonical_coords, input_dim)
    /\ nfe = 0
    /\ tdCalls = 0
    /\ last = NoCall

StructureForward ==
    /\ cls = "HNN_structure"
    /\ \E x \in XsStructure :
          LET H == HNN_structure_forward(x) IN
          last' = Returned("forward", 0, x, Rat(H.num, H.den), H, <<>>, <<>>)
    /\ UNCHANGED <<config, nfe, tdCalls>>

StructureTimeDerivative ==
    /\ cls = "HNN_structure"
    /\ tdCalls < MaxCalls
    /\ \E t \in Times, x \in XsStructure :
          LET r == HNN_structure_time_derivative(t, x) IN
          /\ nfe' = time_derivative_nfe(nfe, r.raised)
          /\ last' = r
    /\ tdCalls' = tdCalls + 1
    /\ UNCHANGED config

-----------------------------------------------------------------------------
(* class HNN_structure_pend.  M_q_inv is 3-by-3, so q and p have three      *)
(* components and input_dim is 6.  A row of a batch of two or more rows is  *)
(* modelled, with V_net giving one number per row; forward is read row by   *)
(* row as the quadratic form its line 143 spells.  The families:            *)
(*     V_net(q) = v . q                                                     *)
(*     M_net(q) = a constant diagonal matrix                                *)
(*     A_net(q) = a 3-by-k matrix, k = 1 or 2, constant or linear in q      *)

Dof == 3

diag_embed(d) == [r \in 1..Len(d) |-> [c \in 1..Len(d) |-> IF r = c THEN d[r] ELSE 0]]

VNets3 == { <<0, 0, 1>>, <<1, -1, 2>> }
MNets == { <<1, 1, 3>>, <<1, 1, 1>> }      \* the diagonal M_net returns
ANets == { "planar", "rod", "zero", "single" }

V3_value(net, q) == Dot(net, q)
V3_grad(net, q) == net

\* A_net(q), 3 rows and k columns
\*   "planar": columns e1, e2       "rod": columns q, e3
\*   "zero"  : two zero columns     "single": the one column e3
A_value(net, q) ==
    CASE net = "planar" -> << <<1, 0>>, <<0, 1>>, <<0, 0>> >>
      [] net = "rod"    -> << <<q[1], 0>>, <<q[2], 0>>, <<q[3], 1>> >>
      [] net = "zero"   -> << <<0, 0>>, <<0, 0>>, <<0, 0>> >>
      [] net = "single" -> << <<0>>, <<0>>, <<1>> >>

\* d(A_net(q)[i][c]) / d(q[j])
A_deriv(net, i, c, j) == IF net = "rod" /\ c = 1 /\ i = j THEN 1 ELSE 0

\* self.get_jacobian(q, A_T_M_inv_p): row c is the gradient with respect to
\* q of component c of A(q)^T M_q_inv p, p held fixed
get_jacobian(net, q, Minv_p) ==
    [c \in 1..NCols(A_value(net, q)) |->
        [j \in 1..Dof |-> SumSeq([i \in 1..Dof |-> A_deriv(net, i, c, j) * Minv_p[i]])]]

\* len(output_sum) raises on a 0-d tensor: squeeze leaves one number per row
\* when A has a single column
get_jacobian_raises(net, q) == NCols(A_value(net, q)) = 1

MatMat(A, B) == [r \in 1..Len(A) |-> VecMat(A[r], B)]

\* mutant: 0.1 is added on the diagonal only
regularise_Diagonal(G) ==
    [r \in 1..Len(G) |-> [c \in 1..Len(G) |-> Scale * G[r][c] + (IF r = c THEN 1 ELSE 0)]]

\* LHS = LHS + torch.ones_like(LHS) * 0.1, as a multiple of 1/Scale
regularise(G) == [r \in 1..Len(G) |-> [c \in 1..Len(G) |-> Scale * G[r][c] + 1]]

Det2(A) == A[1][1] * A[2][2] - A[1][2] * A[2][1]
Adj2(A) == << <<A[2][2], -A[1][2]>>, <<-A[2][1], A[1][1]>> >>

\* M_q_inv = diag_embed([1.0, 1.0, 3.0])
pend_M_q_inv == diag_embed(<<1, 1, 3>>)

\* H of forward: p^T M_net(q) p + V_net(q)
HNN_structure_pend_forward(x) ==
    LET q == chunk_q(x)
        p == chunk_p(x)
        V_q == V3_value(V_net, q)
        M_q_inv == diag_embed(M_net)
    IN  <<Dot(p, MatVec(M_q_inv, p)) + V_q>>

\* the Hamiltonian time_derivative differentiates
pend_H(x, M_q_inv) ==
    LET q == chunk_q(x)
        p == chunk_p(x)
    IN  <<Dot(p, MatVec(M_q_inv, p)) + V3_value(V_net, q)>>

\* torch.autograd.grad(H.sum(), x): (dV/dq, (M_q_inv + M_q_inv^T) p)
pend_dH(x, M_q_inv) ==
    LET q == chunk_q(x)
        p == chunk_p(x)
    IN  V3_grad(V_net, q) \o AddVec(MatVec(M_q_inv, p), MatVec(Transpose(M_q_inv), p))

\* mutant: the force is put on the q half
con_force_vector_field_Swapped(con_force) == con_force \o zeros(Len(con_force))

\* torch.cat((torch.zeros_like(con_force), con_force), dim=1)
con_force_vector_field(con_force) == zeros(Len(con_force)) \o con_force

HNN_structure_pend_time_derivative(t, x) ==
    LET q == chunk_q(x)
        p == chunk_p(x)
        M_q_inv == pend_M_q_inv
        H == pend_H(x, M_q_inv)
        dH == pend_dH(x, M_q_inv)
        HVF == H_vector_field(dH)
        dHdq == chunk_q(dH)
        dHdp == chunk_p(dH)
        A_q == A_value(A_net, q)
        A_T_q == Transpose(A_q)
        Minv_p == MatVec(M_q_inv, p)
    IN  IF get_jacobian_raises(A_net, q)
        THEN Raised("time_derivative", t, x, H, Rat(dH, 1))
        ELSE
        LET J == get_jacobian(A_net, q, Minv_p)
            RHS == SubVec(MatVec(A_T_q, MatVec(M_q_inv, dHdq)), MatVec(J, dHdp))
            G == MatMat(A_T_q, MatMat(M_q_inv, A_q))
            LHS == regularise(G)              \* in units of 1/Scale
        IN  IF Det2(LHS) = 0
            THEN Raised("time_derivative", t, x, H, Rat(dH, 1))    \* torch.inverse: singular
            ELSE
            \* lambd = inverse(LHS) RHS = Scale * adj(LHS) RHS / det(LHS)
            LET lambd == Rat(ScaleVec(Scale, MatVec(Adj2(LHS), RHS)), Det2(LHS))
                con_force == MatVec(A_q, lambd.num)            \* over lambd.den
                ret == Rat(AddVec(ScaleVec(lambd.den, HVF), con_force_vector_field(con_force)),
                           lambd.den)
            IN  Returned("time_derivative", t, x, ret, H, Rat(dH, 1),
                         [A_q |-> A_q, J |-> J, RHS |-> RHS, G |-> G, lambd |-> lambd,
                          M_q_inv |-> M_q_inv, HVF |-> HVF])

QsPend == { <<0, 0, 1>>, <<1, 2, -1>> }
PsPend == { <<0, 0, 0>>, <<0, 1, -1>>, <<2, -1, 1>> }
XsPend == { q \o p : q \in QsPend, p \in PsPend }

InitPend ==
    /\ cls = "HNN_structure_pend"
    /\ input_dim = 2 * Dof
    /\ assume_canonical_coords \in BOOLEAN
    /\ baseline = "unset" /\ damp = "unset" /\ dampNet = "unset"
    /\ differentiale_model = "unset"
    /\ L_net = "unset"
    /\ V_net \in VNets3
    /\ M_net \in MNets
    /\ A_net \in ANets
    /\ M = permutation_tensor(assume_canonical_coords, input_dim)
    /\ nfe = 0
    /\ tdCalls = 0
    /\ last = NoCall

PendForward ==
    /\ cls = "HNN_structure_pend"
    /\ \E x \in XsPend :
          last' = Returned("forward", 0, x, Rat(HNN_structure_pend_forward(x), 1),
                           <<>>, <<>>, <<>>)
    /\ UNCHANGED <<config, nfe, tdCalls>>

PendTimeDerivative ==
    /\ cls = "HNN_structure_pend"
    /\ tdCalls < MaxCalls
    /\ \E t \in Times, x \in XsPend :
          LET r == HNN_structure_pend_time_derivative(t, x) IN
          /\ nfe' = time_derivative_nfe(nfe, r.raised)
          /\ last' = r
    /\ tdCalls' = tdCalls + 1
    /\ UNCHANGED config

-----------------------------------------------------------------------------

Init == InitHNN \/ InitStructure \/ InitPend

Next ==
    \/ HNNForward
    \/ HNNTimeDerivative
    \/ HNNHamiltonianVector
    \/ StructureForward
    \/ StructureTimeDerivative
    \/ PendForward
    \/ PendTimeDerivative
    \/ PermutationTensor

Spec == Init /\ [][Next]_vars

-----------------------------------------------------------------------------
(* Properties *)

Half == input_dim \div 2

ReturnedFrom(op) == last.op = op /\ ~last.raised

\* an undamped, non-baseline time_derivative of HNN, or one of HNN_structure
UndampedTimeDerivative ==
    /\ ReturnedFrom("time_derivative")
    /\ \/ cls = "HNN" /\ ~baseline /\ ~damp
       \/ cls = "HNN_structure"

SquareOf(A, n) == Len(A) = n /\ \A r \in 1..n : Len(A[r]) = n

SignedPermutation(A, n) ==
    /\ SquareOf(A, n)
    /\ \A r \in 1..n, c \in 1..n : A[r][c] \in {-1, 0, 1}
    /\ \A r \in 1..n : Cardinality({c \in 1..n : A[r][c] # 0}) = 1
    /\ \A c \in 1..n : Cardinality({r \in 1..n : A[r][c] # 0}) = 1

SkewSymmetric(A, n) ==
    /\ SquareOf(A, n)
    /\ \A r \in 1..n, c \in 1..n : A[r][c] = -A[c][r]

Symmetric(A, n) == \A r \in 1..n, c \in 1..n : A[r][c] = A[c][r]

\* the matrices permutation_tensor has produced in this state, each with its n
TensorsBuilt ==
    {<<M, input_dim>>} \cup
    (IF ReturnedFrom("permutation_tensor") THEN {<<last.ret, last.aux>>} ELSE {})

(* C1: with canonical coordinates and an even input_dim, the field that the
   undamped HNN.time_derivative and HNN_structure.time_derivative return is
   dH times the transpose of permutation_tensor(n), and that is
   (dH/dp, -dH/dq): first half dH/dp, second half minus dH/dq. *)
C1_CanonicalField ==
    (UndampedTimeDerivative /\ assume_canonical_coords /\ input_dim % 2 = 0) =>
        /\ last.ret.den = last.dH.den
        /\ last.ret.num = VecMat(last.dH.num, Transpose(permutation_tensor(TRUE, input_dim)))
        /\ \A i \in 1..Half :
              /\ last.ret.num[i] = last.dH.num[Half + i]
              /\ last.ret.num[Half + i] = -last.dH.num[i]

C1_Witness ==
    /\ UndampedTimeDerivative /\ assume_canonical_coords /\ input_dim = 4
    /\ last.dH.num[1] # 0 /\ last.dH.num[2] # 0 /\ last.dH.num[3] # 0
    /\ last.dH.num[1] # last.dH.num[3]

(* C2: in every variant the Hamiltonian that time_derivative(t, x)
   differentiates is the energy forward(x) of the same object predicts. *)
C2_SameHamiltonian ==
    (ReturnedFrom("time_derivative") /\ (cls = "HNN" => ~baseline)) =>
        last.H = CASE cls = "HNN" -> HNN_forward(last.x)
                   [] cls = "HNN_structure" -> HNN_structure_forward(last.x)
                   [] cls = "HNN_structure_pend" -> HNN_structure_pend_forward(last.x)

(* C3, as claimed: for every n >= 1 and both values of
   assume_canonical_coords, permutation_tensor(n) is an n-by-n permutation
   matrix up to sign. *)
C3_SignedPermutationAlways ==
    \A b \in TensorsBuilt : SignedPermutation(b[1], b[2])

(* C3, amended: permutation_tensor(n) is n-by-n.  With canonical coordinates
   it is a permutation matrix up to sign.  Without, it has a zero diagonal
   and +1 or -1 everywhere else, so it is a permutation matrix up to sign
   for n = 2 only. *)
C3_TensorShape ==
    \A b \in TensorsBuilt :
        LET A == b[1]
            n == b[2]
        IN  /\ SquareOf(A, n)
            /\ assume_canonical_coords => SignedPermutation(A, n)
            /\ ~assume_canonical_coords =>
                  /\ \A r \in 1..n, c \in 1..n :
                        IF r = c THEN A[r][c] = 0 ELSE A[r][c] \in {-1, 1}
                  /\ SignedPermutation(A, n) <=> n = 2

C3_Witness ==
    /\ ~assume_canonical_coords /\ input_dim = 3
    /\ ReturnedFrom("permutation_tensor") /\ last.aux = 4

(* C4: permutation_tensor(n) is skew-symmetric with canonical coordinates
   and n even, and without canonical coordinates for every n; then the
   field g M^T of Hamiltonian_vector and of the undamped time_derivative is
   orthogonal to the gradient g. *)
C4_SkewAndOrthogonal ==
    /\ \A b \in TensorsBuilt :
          (~assume_canonical_coords \/ b[2] % 2 = 0) => SkewSymmetric(b[1], b[2])
    /\ ( /\ UndampedTimeDerivative \/ ReturnedFrom("Hamiltonian_vector")
         /\ ~assume_canonical_coords \/ input_dim % 2 = 0 )
       => Dot(last.dH.num, last.ret.num) = 0

C4_Witness ==
    /\ ReturnedFrom("Hamiltonian_vector")
    /\ ~assume_canonical_coords /\ input_dim = 3
    /\ \A i \in 1..3 : last.dH.num[i] # 0
    /\ \E i \in 1..3 : last.ret.num[i] # 0

\* a returned time_derivative of HNN_structure_pend
PendTimeDerivativeReturned == cls = "HNN_structure_pend" /\ ReturnedFrom("time_derivative")

\* the rate of A(q)^T M_q_inv p along (q', p'), times the denominator of
\* lambda: J q' + A^T M_q_inv p'
ConstraintRate(qdot, pdot) ==
    AddVec(MatVec(last.aux.J, qdot),
           MatVec(Transpose(last.aux.A_q), MatVec(last.aux.M_q_inv, pdot)))

\* q' = dH/dp and p' = -dH/dq + A lambda, times the denominator of lambda
PendQdot == ScaleVec(last.aux.lambd.den, chunk_p(last.dH.num))
PendPdot == AddVec(ScaleVec(-last.aux.lambd.den, chunk_q(last.dH.num)),
                   MatVec(last.aux.A_q, last.aux.lambd.num))

(* C5, as claimed: lambda solves (A^T M^-1 A) lambda = A^T M^-1 dH/dq -
   (d(A^T M^-1 p)/dq) dH/dp, so with q' = dH/dp and p' = -dH/dq + A lambda
   the rate of A(q)^T M^-1 p is zero. *)
C5_ExactConstraint ==
    PendTimeDerivativeReturned =>
        /\ MatVec(last.aux.G, last.aux.lambd.num) = ScaleVec(last.aux.lambd.den, last.aux.RHS)
        /\ \A c \in 1..Len(last.aux.RHS) : ConstraintRate(PendQdot, PendPdot)[c] = 0

(* C5, amended: lambda solves (A^T M^-1 A + 0.1 * ones) lambda = RHS, ones
   the all-ones matrix; with canonical coordinates the returned field is
   (q', p') = (dH/dp, -dH/dq + A lambda), and along it every component of
   the rate of A(q)^T M^-1 p is -0.1 times the sum of the entries of lambda. *)
C5_RegularisedConstraint ==
    PendTimeDerivativeReturned =>
        LET G == last.aux.G
            lam == last.aux.lambd
            k == Len(last.aux.RHS)
            LHS == [r \in 1..k |-> [c \in 1..k |-> Scale * G[r][c] + 1]]
        IN  /\ lam.den > 0
            /\ MatVec(LHS, lam.num) = ScaleVec(Scale * lam.den, last.aux.RHS)
            /\ assume_canonical_coords =>
                  /\ last.ret.den = lam.den
                  /\ last.ret.num = PendQdot \o PendPdot
            /\ \A c \in 1..k :
                  Scale * ConstraintRate(PendQdot, PendPdot)[c] = -SumSeq(lam.num)

C5_Witness ==
    /\ PendTimeDerivativeReturned /\ assume_canonical_coords
    /\ A_net = "rod"
    /\ SumSeq(last.aux.lambd.num) # 0
    /\ \E i \in 1..Dof : last.aux.J[1][i] # 0

(* C6: HNN_structure.forward uses M_q = L*L + 0.1, which is at least 0.1
   for every L, so the divisor is never zero, and the kinetic term
   p*p/(2*M_q) is never negative and is zero exactly when p = 0. *)
C6_PositiveMass ==
    (cls = "HNN_structure" /\ last.op \in {"forward", "time_derivative"}) =>
        LET L == last.H.L
            p == chunk_p(last.x)[1]
        IN  /\ L = L_value(L_net, chunk_q(last.x)[1])
            /\ last.H.Mq = Scale * L * L + 1
            /\ last.H.Mq >= 1
            /\ last.H.K.den > 0 /\ last.H.den > 0
            /\ last.H.K.num >= 0
            /\ last.H.K.num = 0 <=> p = 0
            \* H = p*p/(2*M_q) + V_q
            /\ last.H.num[1] * 2 * last.H.Mq =
                  (Scale * p * p + 2 * last.H.Mq * V_value(V_net, chunk_q(last.x)[1])) * last.H.den

C6_Witness ==
    /\ cls = "HNN_structure" /\ last.op = "forward"
    /\ last.H.L = 0 /\ chunk_p(last.x)[1] # 0

\* a returned damped time_derivative of an HNN
DampedTimeDerivative ==
    cls = "HNN" /\ ~baseline /\ damp /\ ReturnedFrom("time_derivative")

(* C7: the damped HNN.time_derivative returns Hamiltonian_vector(x) minus
   dH D(x), D untransposed; for a symmetric D(x) that is dH M^T - dH D^T,
   and for a skew-symmetric M the energy rate dH . field is -(dH D dH^T). *)
C7_DampedField ==
    DampedTimeDerivative =>
        LET dH == last.dH.num
            D == damp_matrix(dampNet, last.x)
            field == last.ret.num
        IN  /\ last.ret.den = 1
            /\ field = SubVec(HNN_Hamiltonian_vector(last.x).ret.num, VecMat(dH, D))
            /\ Symmetric(D, input_dim) =>
                  field = SubVec(VecMat(dH, Transpose(M)), VecMat(dH, Transpose(D)))
            /\ SkewSymmetric(M, input_dim) =>
                  Dot(dH, field) = -Dot(VecMat(dH, D), dH)

C7_Witness ==
    /\ DampedTimeDerivative /\ dampNet = "asym" /\ input_dim = 3
    /\ VecMat(last.dH.num, last.aux) # VecMat(last.dH.num, Transpose(last.aux))
    /\ Dot(last.dH.num, last.ret.num) < 0

(* C8: nfe is 0 after construction and is always the number of
   time_derivative calls begun so far, raised or not; no other method
   changes it. *)
C8_NfeCountsCalls == nfe = tdCalls

C8_Witness ==
    /\ nfe = 2 /\ last.op = "time_derivative" /\ last.raised
    /\ cls = "HNN" /\ dampNet = "None"

(* C9: with baseline=True, HNN.time_derivative(t, x) returns what
   forward(x) returns, the output of differentiale_model(x), whatever damp
   and dampNet are; with or without baseline the result does not depend
   on t. *)
C9_BaselineField ==
    (cls = "HNN" /\ last.op = "time_derivative") =>
        /\ baseline =>
              /\ ~last.raised
              /\ last.ret = Rat(HNN_forward(last.x), 1)
              /\ last.ret.num = model(differentiale_model, last.x)
        /\ \A t \in Times :
              /\ HNN_time_derivative(t, last.x).raised = last.raised
              /\ HNN_time_derivative(t, last.x).ret = last.ret

C9_Witness ==
    /\ cls = "HNN" /\ baseline /\ damp /\ dampNet = "None"
    /\ ReturnedFrom("time_derivative") /\ last.t = 1
    /\ last.ret.num # H_vector_field(HNN_dH(last.x))

(* C10: in HNN_structure_pend.time_derivative the constraint force acts on
   the momentum half only: the first half of the returned field is the
   first half of dH M^T, and the second half exceeds that of dH M^T by
   exactly A(q) lambda. *)
C10_ForceOnMomentumHalf ==
    PendTimeDerivativeReturned =>
        LET den == last.aux.lambd.den
            free == ScaleVec(den, VecMat(last.dH.num, Transpose(M)))
            force == MatVec(last.aux.A_q, last.aux.lambd.num)
        IN  /\ last.ret.den = den
            /\ chunk_q(last.ret.num) = chunk_q(free)
            /\ SubVec(chunk_p(last.ret.num), chunk_p(free)) = force

C10_Witness ==
    /\ PendTimeDerivativeReturned
    /\ \E i \in 1..Dof : MatVec(last.aux.A_q, last.aux.lambd.num)[i] # 0

====
